---- MODULE Spec2Model ----
(***************************************************************************)
(* Model of the hyperparameter search driver                               *)
(* (training/xtime/stages/search_hp.py) and of the dataset contract check  *)
(* (training/tests/datasets/test_gas_concentrations.py).                   *)
(*                                                                         *)
(* Spec        : one call of search_hp, statement by statement, with the   *)
(*               trial runner's trials interleaved inside tuner.fit().     *)
(* SpecAlg     : _init_search_algorithm as a pure function of an arbitrary *)
(*               incoming TuneConfig.                                      *)
(* SpecDataset : TestGasConcentrations.test_all over arbitrary built       *)
(*               datasets.                                                 *)
(***************************************************************************)
EXTENDS Integers, Sequences, FiniteSets, TLC

VARIABLES
    pc,            \* position of the driver / of the function under check
    model,         \* search_hp argument
    dataset,       \* search_hp argument
    algorithm,     \* search_hp argument
    num_trials,    \* search_hp argument
    gpu,           \* search_hp argument
    METRICS,       \* metric registry: task type -> direction of its primary metric
    ray,           \* TRUE while the distributed runtime is initialised
    run,           \* tracking run: "none", "active", "FINISHED", "FAILED"
    log,           \* every write to the run's artifact bundle / tag set, in order
    task,          \* ctx.dataset.metadata.task.type, "None" before Dataset.load
    tc_arg,        \* the TuneConfig passed into _init_search_algorithm
    tune_config,   \* the TuneConfig it returned, handed to the tuner
    callback,      \* (metric, mode) given to RayTuneDriverToMLflowLoggerCallback
    tuner,         \* the Tuner, once built: its per-trial resource request
    trials,        \* trial runner bookkeeping (counts of trials per state)
    gpus_in_use,   \* GPU units currently reserved by running trials
    results,       \* the ResultGrid returned by tuner.fit(), as an option
    best_trial,    \* contents of best_trial.yaml, as an option
    error,         \* the exception search_hp exited with, as an option
    returned,      \* the value search_hp returned, as an option
    built,         \* dataset built for each configuration (contract check)
    test_index,    \* position of _test_datasets in DATASETS
    test_outcome   \* "running", "passed", or the field whose check failed

vars == <<pc, model, dataset, algorithm, num_trials, gpu, METRICS, ray, run, log,
          task, tc_arg, tune_config, callback, tuner, trials, gpus_in_use, results,
          best_trial, error, returned, built, test_index, test_outcome>>

driverInputs == <<model, dataset, algorithm, num_trials, gpu, METRICS>>
datasetVars == <<built, test_index, test_outcome>>

(***************************************************************************)
(* Bounds and input domains                                                *)
(***************************************************************************)
MaxTrials == 3

Models == {"xgboost", "no_such_model"}
KnownModels == {"xgboost"}
Datasets == {"gas_concentrations", "no_such_dataset"}
KnownDatasets == {"gas_concentrations"}
Algorithms == {"random", "hyperopt", "grid"}
TaskTypes == {"MULTI_CLASS_CLASSIFICATION", "REGRESSION"}
Modes == {"min", "max"}

\* Python's None / an optional value, as a set of at most one element.
None == {}
Some(v) == {v}
The(opt) == CHOOSE v \in opt : TRUE

RunId == "run1"

(***************************************************************************)
(* Metric registry (xtime.ml.METRICS)                                      *)
(***************************************************************************)
get_primary_metric(t) == "primary_metric_of_" \o t

get_direction(registry, t) == registry[t]

(***************************************************************************)
(* Ray Tune configuration objects                                          *)
(***************************************************************************)
NoSearchAlg ==
    [kind |-> "None", metric |-> "None", mode |-> "None",
     n_initial_points |-> None, random_state |-> None, max_concurrent |-> None]

BasicVariantGenerator(random_state) ==
    [kind |-> "BasicVariantGenerator", metric |-> "None", mode |-> "None",
     n_initial_points |-> None, random_state |-> Some(random_state),
     max_concurrent |-> None]

HyperOptSearch(metric, mode, n_initial_points, random_state_seed) ==
    [kind |-> "HyperOptSearch", metric |-> metric, mode |-> mode,
     n_initial_points |-> Some(n_initial_points),
     random_state |-> Some(random_state_seed), max_concurrent |-> None]

\* The limiter wraps a searcher: the wrapped searcher's settings are kept and
\* the limit is recorded on the wrapper.
ConcurrencyLimiter(searcher, max_concurrent) ==
    [searcher EXCEPT !.kind = "ConcurrencyLimiter(" \o searcher.kind \o ")",
                     !.max_concurrent = Some(max_concurrent)]

TuneConfig(metric, mode, num_samples) ==
    [metric |-> metric, mode |-> mode, num_samples |-> num_samples,
     search_alg |-> NoSearchAlg, max_concurrent_trials |-> None]

NoTuneConfig == TuneConfig("None", "None", 0)

\* Variant: the final else branch does not reject the name.
SupportedAny(alg) == TRUE

Supported(alg) == alg \in {"random", "hyperopt"}

\* Variant: the "hyperopt" branch forgets to clear the scheduler-level cap.
_init_search_algorithm_keep_cap(tc, alg) ==
    IF alg = "random"
    THEN [tc EXCEPT !.search_alg = BasicVariantGenerator(1),
                    !.max_concurrent_trials = Some(2)]
    ELSE [tc EXCEPT !.search_alg =
                        ConcurrencyLimiter(HyperOptSearch(tc.metric, tc.mode, 20, 1), 2)]

\* _init_search_algorithm, the branches that return.
_init_search_algorithm(tc, alg) ==
    IF alg = "random"
    THEN [tc EXCEPT !.search_alg = BasicVariantGenerator(1),
                    !.max_concurrent_trials = Some(2)]
    ELSE [tc EXCEPT !.search_alg =
                        ConcurrencyLimiter(HyperOptSearch(tc.metric, tc.mode, 20, 1), 2),
                    !.max_concurrent_trials = None]

\* _init_search_algorithm, the branch that raises.
ValueError(alg) ==
    [type |-> "ValueError",
     msg |-> "Unsupported hyperparameter optimization algorithm: " \o alg]

Exception(type) == [type |-> type, msg |-> ""]

\* Variant: the driver asks for maximisation.
DriverTuneConfigMax(t, n) == TuneConfig(get_primary_metric(t), "max", n)

\* The TuneConfig search_hp constructs before configuring the algorithm.
DriverTuneConfig(t, n) == TuneConfig(get_primary_metric(t), "min", n)

(***************************************************************************)
(* Trial runner (ray.tune.Tuner.fit) bookkeeping                           *)
(***************************************************************************)
NoTrials == [pending |-> 0, running |-> 0, ok |-> 0, failed |-> 0, reported |-> 0]

\* Concurrency bound the runner enforces for a configuration: the tighter of
\* the scheduler-level cap and the search-algorithm-level limiter.
Caps(tc) == tc.max_concurrent_trials \cup tc.search_alg.max_concurrent

CanStart(tc, tr) ==
    /\ tr.pending > 0
    /\ \A c \in Caps(tc) : tr.running < c

ResultGrid(tr) ==
    [len |-> tr.ok + tr.failed, num_errors |-> tr.failed, reported |-> tr.reported]

\* ResultGrid.get_best_result followed by reading the task's metrics from it:
\* possible only if some trial reported the metrics.
HasBestMetrics(rg) == rg.reported > 0

(***************************************************************************)
(* Result summarisation                                                    *)
(***************************************************************************)
\* Variant: the "all failed" test is made first.
_set_run_status_all_first(rg) ==
    IF rg.num_errors = rg.len THEN "FAILED"
    ELSE IF rg.num_errors = 0 THEN "COMPLETED"
    ELSE "PARTIALLY_COMPLETED"

_set_run_status(rg) ==
    IF rg.num_errors = 0 THEN "COMPLETED"
    ELSE IF rg.num_errors = rg.len THEN "FAILED"
    ELSE "PARTIALLY_COMPLETED"

run_uri(run_id) == "mlflow:///" \o run_id

\* Variant: the failed trials are not subtracted from the successful ones.
_save_best_trial_info_no_subtract(rg, run_id) ==
    [num_failed_trials |-> rg.num_errors,
     num_successful_trials |-> rg.len,
     run_uri |-> run_uri(run_id)]

_save_best_trial_info(rg, run_id) ==
    [num_failed_trials |-> rg.num_errors,
     num_successful_trials |-> rg.len - rg.num_errors,
     run_uri |-> run_uri(run_id)]

(***************************************************************************)
(* Writes to the tracking run                                              *)
(***************************************************************************)
FitDone == results # None

Write(what, value) ==
    [what |-> what, value |-> value, active |-> (run = "active"), fit_done |-> FitDone]

Written(what) == \E i \in 1..Len(log) : log[i].what = what

StatusWrites == SelectSeq(log, LAMBDA e : e.what = "tag:status")

\* An exception leaving the body of `with mlflow.start_run(...)`: the context
\* manager ends the run as FAILED and the exception propagates out of search_hp.
Raise(e) ==
    /\ pc' = "raised"
    /\ error' = Some(e)
    /\ run' = IF run = "active" THEN "FAILED" ELSE run

(***************************************************************************)
(* search_hp, statement by statement                                       *)
(***************************************************************************)
Idle ==
    /\ ray = FALSE
    /\ run = "none"
    /\ log = <<>>
    /\ task = "None"
    /\ tc_arg = NoTuneConfig
    /\ tune_config = NoTuneConfig
    /\ callback = None
    /\ tuner = None
    /\ trials = NoTrials
    /\ gpus_in_use = 0
    /\ results = None
    /\ best_trial = None
    /\ error = None
    /\ returned = None

DatasetIdle ==
    /\ built = <<>>
    /\ test_index = 0
    /\ test_outcome = "idle"

Init ==
    /\ pc = "get_estimator"
    /\ model \in Models
    /\ dataset \in Datasets
    /\ algorithm \in Algorithms
    /\ num_trials \in 0..MaxTrials
    /\ gpu \in BOOLEAN
    /\ METRICS \in [TaskTypes -> Modes]
    /\ Idle
    /\ DatasetIdle

\* line 46
GetEstimator ==
    /\ pc = "get_estimator"
    /\ IF model \in KnownModels
       THEN /\ pc' = "ray_init"
            /\ UNCHANGED <<error, run>>
       ELSE Raise(Exception("UnknownEstimator"))
    /\ UNCHANGED <<driverInputs, ray, log, task, tc_arg, tune_config, callback, tuner, trials,
                   gpus_in_use, results, best_trial, returned, datasetVars>>

\* line 48
RayInit ==
    /\ pc = "ray_init"
    /\ ray' = TRUE
    /\ pc' = "start_run"
    /\ UNCHANGED <<driverInputs, run, log, task, tc_arg, tune_config, callback, tuner, trials,
                   gpus_in_use, results, best_trial, error, returned, datasetVars>>

\* Variant: the tracking run is not opened before the driver goes on.
StartRunSkipped ==
    /\ pc = "start_run"
    /\ pc' = "save_inputs"
    /\ UNCHANGED <<driverInputs, ray, run, log, task, tc_arg, tune_config, callback,
                   tuner, trials, gpus_in_use, results, best_trial, error, returned,
                   datasetVars>>

\* lines 49-52
StartRun ==
    /\ pc = "start_run"
    /\ run' = "active"
    /\ pc' = "save_inputs"
    /\ UNCHANGED <<driverInputs, ray, log, task, tc_arg, tune_config, callback, tuner, trials,
                   gpus_in_use, results, best_trial, error, returned, datasetVars>>

\* lines 53-65
SaveRunInputs ==
    /\ pc = "save_inputs"
    /\ log' = Append(log, Write("run_inputs.yaml", ""))
    /\ pc' = "load_dataset"
    /\ UNCHANGED <<driverInputs, ray, run, task, tc_arg, tune_config, callback, tuner, trials,
                   gpus_in_use, results, best_trial, error, returned, datasetVars>>

\* lines 67-68
LoadDataset ==
    /\ pc = "load_dataset"
    /\ IF dataset \in KnownDatasets
       THEN /\ \E t \in TaskTypes : task' = t
            /\ log' = Append(log, Write("dataset_info", ""))
            /\ pc' = "set_tags"
            /\ UNCHANGED <<error, run>>
       ELSE /\ Raise(Exception("UnknownDataset"))
            /\ UNCHANGED <<task, log>>
    /\ UNCHANGED <<driverInputs, ray, tc_arg, tune_config, callback, tuner, trials,
                   gpus_in_use, results, best_trial, returned, datasetVars>>

\* lines 69-77
SetTags ==
    /\ pc = "set_tags"
    /\ log' = log \o <<Write("tags", algorithm), Write("params", algorithm)>>
    /\ pc' = "init_search"
    /\ UNCHANGED <<driverInputs, ray, run, task, tc_arg, tune_config, callback, tuner, trials,
                   gpus_in_use, results, best_trial, error, returned, datasetVars>>

\* lines 79-85
InitSearch ==
    /\ pc = "init_search"
    /\ tc_arg' = DriverTuneConfig(task, num_trials)
    /\ IF Supported(algorithm)
       THEN /\ tune_config' =
                  _init_search_algorithm(DriverTuneConfig(task, num_trials), algorithm)
            /\ pc' = "build_tuner"
            /\ UNCHANGED <<error, run>>
       ELSE /\ Raise(ValueError(algorithm))
            /\ UNCHANGED tune_config
    /\ UNCHANGED <<driverInputs, ray, log, task, callback, tuner, trials,
                   gpus_in_use, results, best_trial, returned, datasetVars>>

\* lines 86-96
BuildTuner ==
    /\ pc = "build_tuner"
    /\ callback' = Some([metric |-> tune_config.metric, mode |-> tune_config.mode])
    /\ tuner' = Some([gpu |-> IF gpu THEN 1 ELSE 0,
                      metric |-> tune_config.metric, mode |-> tune_config.mode])
    /\ pc' = "fit"
    /\ UNCHANGED <<driverInputs, ray, run, log, task, tc_arg, tune_config, trials,
                   gpus_in_use, results, best_trial, error, returned, datasetVars>>

\* line 97: tuner.fit() is entered; num_samples trials are queued
FitStart ==
    /\ pc = "fit"
    /\ trials' = [NoTrials EXCEPT !.pending = tune_config.num_samples]
    /\ pc' = "fitting"
    /\ UNCHANGED <<driverInputs, ray, run, log, task, tc_arg, tune_config, callback, tuner,
                   gpus_in_use, results, best_trial, error, returned, datasetVars>>

\* inside tuner.fit(): the runner starts a trial, within the concurrency bound
TrialStart ==
    /\ pc = "fitting"
    /\ CanStart(tune_config, trials)
    /\ trials' = [trials EXCEPT !.pending = @ - 1, !.running = @ + 1]
    /\ gpus_in_use' = gpus_in_use + The(tuner).gpu
    /\ UNCHANGED <<pc, driverInputs, ray, run, log, task, tc_arg, tune_config, callback, tuner,
                   results, best_trial, error, returned, datasetVars>>

\* inside tuner.fit(): a running trial ends; a failed trial may or may not have
\* reported its metrics before failing
TrialEnd ==
    /\ pc = "fitting"
    /\ trials.running > 0
    /\ \E outcome \in {"ok", "error_after_report", "error"} :
          trials' = [trials EXCEPT
                        !.running = @ - 1,
                        !.ok = IF outcome = "ok" THEN @ + 1 ELSE @,
                        !.failed = IF outcome = "ok" THEN @ ELSE @ + 1,
                        !.reported = IF outcome = "error" THEN @ ELSE @ + 1]
    /\ gpus_in_use' = gpus_in_use - The(tuner).gpu
    /\ UNCHANGED <<pc, driverInputs, ray, run, log, task, tc_arg, tune_config, callback, tuner,
                   results, best_trial, error, returned, datasetVars>>

\* line 97: tuner.fit() returns once every trial has finished
FitReturn ==
    /\ pc = "fitting"
    /\ trials.pending = 0
    /\ trials.running = 0
    /\ results' = Some(ResultGrid(trials))
    /\ pc' = "set_run_status"
    /\ UNCHANGED <<driverInputs, ray, run, log, task, tc_arg, tune_config, callback, tuner,
                   trials, gpus_in_use, best_trial, error, returned, datasetVars>>

\* line 97: the trial runner itself fails; its trials are torn down
FitRaise ==
    /\ pc = "fitting"
    /\ Raise(Exception("TuneError"))
    /\ trials' = [trials EXCEPT !.running = 0]
    /\ gpus_in_use' = 0
    /\ UNCHANGED <<driverInputs, ray, log, task, tc_arg, tune_config, callback, tuner,
                   results, best_trial, returned, datasetVars>>

\* line 99
SetRunStatus ==
    /\ pc = "set_run_status"
    /\ log' = Append(log, Write("tag:status", _set_run_status(The(results))))
    /\ pc' = "get_metrics"
    /\ UNCHANGED <<driverInputs, ray, run, task, tc_arg, tune_config, callback, tuner, trials,
                   gpus_in_use, results, best_trial, error, returned, datasetVars>>

\* lines 100-101
GetMetrics ==
    /\ pc = "get_metrics"
    /\ IF HasBestMetrics(The(results))
       THEN /\ log' = Append(log, Write("metrics", ""))
            /\ pc' = "save_best_trial"
            /\ UNCHANGED <<error, run>>
       ELSE /\ Raise(Exception("RuntimeError"))
            /\ UNCHANGED log
    /\ UNCHANGED <<driverInputs, ray, task, tc_arg, tune_config, callback, tuner, trials,
                   gpus_in_use, results, best_trial, returned, datasetVars>>

\* line 102
SaveBestTrialInfo ==
    /\ pc = "save_best_trial"
    /\ best_trial' = Some(_save_best_trial_info(The(results), RunId))
    /\ log' = Append(log, Write("best_trial.yaml", ""))
    /\ pc' = "save_summary"
    /\ UNCHANGED <<driverInputs, ray, run, task, tc_arg, tune_config, callback, tuner, trials,
                   gpus_in_use, results, error, returned, datasetVars>>

\* lines 103-104, and the normal exit of the `with` block
SaveSummary ==
    /\ pc = "save_summary"
    /\ log' = Append(log, Write("summary.yaml", ""))
    /\ run' = "FINISHED"
    /\ pc' = "ray_shutdown"
    /\ UNCHANGED <<driverInputs, ray, task, tc_arg, tune_config, callback, tuner, trials,
                   gpus_in_use, results, best_trial, error, returned, datasetVars>>

\* line 105
RayShutdown ==
    /\ pc = "ray_shutdown"
    /\ ray' = FALSE
    /\ pc' = "return"
    /\ UNCHANGED <<driverInputs, run, log, task, tc_arg, tune_config, callback, tuner, trials,
                   gpus_in_use, results, best_trial, error, returned, datasetVars>>

\* line 107
Return ==
    /\ pc = "return"
    /\ returned' = Some(run_uri(RunId))
    /\ pc' = "done"
    /\ UNCHANGED <<driverInputs, ray, run, log, task, tc_arg, tune_config, callback, tuner,
                   trials, gpus_in_use, results, best_trial, error, datasetVars>>

Next ==
    \/ GetEstimator
    \/ RayInit
    \/ StartRun
    \/ SaveRunInputs
    \/ LoadDataset
    \/ SetTags
    \/ InitSearch
    \/ BuildTuner
    \/ FitStart
    \/ TrialStart
    \/ TrialEnd
    \/ FitReturn
    \/ FitRaise
    \/ SetRunStatus
    \/ GetMetrics
    \/ SaveBestTrialInfo
    \/ SaveSummary
    \/ RayShutdown
    \/ Return

Spec == Init /\ [][Next]_vars

Terminated == pc \in {"done", "raised"}

(***************************************************************************)
(* _init_search_algorithm on an arbitrary incoming TuneConfig              *)
(***************************************************************************)
IncomingSearchAlgs ==
    {NoSearchAlg, ConcurrencyLimiter(HyperOptSearch("valid_loss", "max", 20, 1), 3)}

IncomingTuneConfigs ==
    {[metric |-> m, mode |-> d, num_samples |-> n, search_alg |-> a,
      max_concurrent_trials |-> c] :
        m \in {get_primary_metric(t) : t \in TaskTypes}, d \in Modes,
        n \in 0..MaxTrials, a \in IncomingSearchAlgs,
        c \in {None, Some(1), Some(2), Some(MaxTrials + 1)}}

InitAlg ==
    /\ pc = "alg_call"
    /\ model = "xgboost"
    /\ dataset = "gas_concentrations"
    /\ algorithm \in Algorithms
    /\ num_trials = 0
    /\ gpu = FALSE
    /\ METRICS = [t \in TaskTypes |-> "min"]
    /\ ray = FALSE
    /\ run = "none"
    /\ log = <<>>
    /\ task = "None"
    /\ tc_arg \in IncomingTuneConfigs
    /\ tune_config = NoTuneConfig
    /\ callback = None
    /\ tuner = None
    /\ trials = NoTrials
    /\ gpus_in_use = 0
    /\ results = None
    /\ best_trial = None
    /\ error = None
    /\ returned = None
    /\ DatasetIdle

\* lines 110-122, called on tc_arg
CallInitSearchAlgorithm ==
    /\ pc = "alg_call"
    /\ IF Supported(algorithm)
       THEN /\ tune_config' = _init_search_algorithm(tc_arg, algorithm)
            /\ pc' = "alg_returned"
            /\ UNCHANGED error
       ELSE /\ error' = Some(ValueError(algorithm))
            /\ pc' = "alg_raised"
            /\ UNCHANGED tune_config
    /\ UNCHANGED <<driverInputs, ray, run, log, task, tc_arg, callback, tuner, trials,
                   gpus_in_use, results, best_trial, returned, datasetVars>>

NextAlg == CallInitSearchAlgorithm

SpecAlg == InitAlg /\ [][NextAlg]_vars

(***************************************************************************)
(* Dataset contract check (TestGasConcentrations)                          *)
(***************************************************************************)
DatasetSplits == {"train", "test", "valid"}

_PARAMS ==
    [splits |-> {"train", "test", "valid"},
     task |-> "MULTI_CLASS_CLASSIFICATION",
     num_features |-> 129,
     num_classes |-> 6]

standard(name, params) == [name |-> name, params |-> params]

\* Variant: the second configuration is not declared.
DATASETS_default_only == <<standard("default", _PARAMS)>>

DATASETS == <<standard("default", _PARAMS), standard("numerical", _PARAMS)>>

ConfigNames == {"default", "numerical"}

\* What a builder may hand back for one configuration.
BuiltDatasets ==
    [splits : SUBSET DatasetSplits,
     task : TaskTypes,
     num_features : {128, 129},
     num_classes : {6, 7}]

\* DatasetTestCase's check of one built dataset against the expected parameters;
\* the first failing check is the one reported.
_test_dataset(ds, params) ==
    IF ~(params.splits \subseteq ds.splits) THEN "missing split"
    ELSE IF ds.task # params.task THEN "task"
    ELSE IF ds.num_features # params.num_features THEN "num_features"
    ELSE IF ds.num_classes # params.num_classes THEN "num_classes"
    ELSE "ok"

InitDataset ==
    /\ pc = "test_all"
    /\ model = "xgboost"
    /\ dataset = "gas_concentrations"
    /\ algorithm = "random"
    /\ num_trials = 0
    /\ gpu = FALSE
    /\ METRICS = [t \in TaskTypes |-> "min"]
    /\ Idle
    /\ built \in [ConfigNames -> BuiltDatasets]
    /\ test_index = 0
    /\ test_outcome = "running"

\* DatasetTestCase._test_datasets, one iteration over DATASETS
TestDataset ==
    /\ pc = "test_all"
    /\ test_outcome = "running"
    /\ test_index < Len(DATASETS)
    /\ LET case == DATASETS[test_index + 1]
           verdict == _test_dataset(built[case.name], case.params)
       IN IF verdict = "ok"
          THEN /\ test_index' = test_index + 1
               /\ UNCHANGED test_outcome
          ELSE /\ test_outcome' = verdict
               /\ UNCHANGED test_index
    /\ UNCHANGED <<pc, driverInputs, ray, run, log, task, tc_arg, tune_config, callback,
                   tuner, trials, gpus_in_use, results, best_trial, error, returned,
                   built>>

\* test_all returns: every declared configuration was checked and passed
TestAllPasses ==
    /\ pc = "test_all"
    /\ test_outcome = "running"
    /\ test_index = Len(DATASETS)
    /\ test_outcome' = "passed"
    /\ pc' = "test_done"
    /\ UNCHANGED <<driverInputs, ray, run, log, task, tc_arg, tune_config, callback,
                   tuner, trials, gpus_in_use, results, best_trial, error, returned,
                   built, test_index>>

NextDataset ==
    \/ TestDataset
    \/ TestAllPasses

SpecDataset == InitDataset /\ [][NextDataset]_vars

(***************************************************************************)
(* Properties                                                              *)
(***************************************************************************)
FailedTrials == trials.failed
TotalTrials == trials.ok + trials.failed
StatusValues == {"COMPLETED", "FAILED", "PARTIALLY_COMPLETED"}
StatusSet == FitDone /\ pc # "set_run_status"

\* C1 (as stated): once the trial runner has returned a grid of N trials of
\* which f failed, the status tag has been written exactly once, with COMPLETED
\* when f = 0, FAILED when f = N and PARTIALLY_COMPLETED when 0 < f < N; it is
\* never written before, and never with another value.
C1_StatusAsStated ==
    /\ ~StatusSet => StatusWrites = <<>>
    /\ StatusSet =>
          /\ Len(StatusWrites) = 1
          /\ StatusWrites[1].value \in StatusValues
          /\ (FailedTrials = 0 => StatusWrites[1].value = "COMPLETED")
          /\ (FailedTrials = TotalTrials => StatusWrites[1].value = "FAILED")
          /\ (0 < FailedTrials /\ FailedTrials < TotalTrials
                => StatusWrites[1].value = "PARTIALLY_COMPLETED")

\* C1 (amended): as above, except that the f = 0 test takes precedence: the tag
\* is FAILED when f = N and N > 0; an empty grid (N = 0) is tagged COMPLETED.
C1_StatusAmended ==
    /\ ~StatusSet => StatusWrites = <<>>
    /\ StatusSet =>
          /\ Len(StatusWrites) = 1
          /\ StatusWrites[1].value \in StatusValues
          /\ (FailedTrials = 0 => StatusWrites[1].value = "COMPLETED")
          /\ (FailedTrials = TotalTrials /\ TotalTrials > 0
                => StatusWrites[1].value = "FAILED")
          /\ (0 < FailedTrials /\ FailedTrials < TotalTrials
                => StatusWrites[1].value = "PARTIALLY_COMPLETED")

C1_Witness ==
    /\ StatusSet
    /\ trials.failed = 1
    /\ trials.ok = 2
    /\ StatusWrites[1].value = "PARTIALLY_COMPLETED"

C3_OneConcurrencyMechanism ==
    pc = "alg_returned" =>
        LET sched == tune_config.max_concurrent_trials
            limiter == tune_config.search_alg.max_concurrent
        IN /\ algorithm \in {"random", "hyperopt"}
           /\ (sched = None) # (limiter = None)
           /\ sched \cup limiter = {2}
           /\ algorithm = "random" =>
                 /\ sched = {2}
                 /\ limiter = None
                 /\ tune_config.search_alg.kind = "BasicVariantGenerator"
           /\ algorithm = "hyperopt" =>
                 /\ sched = None
                 /\ limiter = {2}
                 /\ tune_config.search_alg.kind = "ConcurrencyLimiter(HyperOptSearch)"

C3_Witness ==
    /\ pc = "alg_returned"
    /\ algorithm = "hyperopt"
    /\ tc_arg.max_concurrent_trials = {1}
    /\ tc_arg.search_alg.max_concurrent = {3}
    /\ tune_config.max_concurrent_trials = None

\* C4: whenever search_hp has exited, by returning or by raising, the
\* distributed runtime is shut down.
C4_RuntimeReleasedOnExit ==
    Terminated => ray = FALSE

\* C5: once the trial runner has returned a grid of N >= 1 trials, whatever the
\* number of failed trials, search_hp ends by returning the run locator, with
\* the status tag set and best_trial.yaml and summary.yaml written; it never
\* ends by raising.
C5_TrialFailuresNotFatal ==
    Terminated /\ FitDone /\ TotalTrials >= 1 =>
        /\ pc = "done"
        /\ error = None
        /\ Len(StatusWrites) = 1
        /\ best_trial # None
        /\ Written("best_trial.yaml")
        /\ Written("summary.yaml")
        /\ returned = {"mlflow:///run1"}

C7_RaisedBeforeAllocation ==
    (pc = "raised" /\ \E e \in error : e.type = "ValueError") =>
        /\ ray = FALSE
        /\ run = "none"
        /\ log = <<>>

\* C8: every write to the run's artifacts and tags is made while the tracking
\* run is active; the status tag, best_trial.yaml and summary.yaml are written
\* only after tuner.fit has returned, with no trial pending or running; and no
\* trial starts before the run exists and run_inputs.yaml is written.
C8_WriteOrdering ==
    /\ \A i \in 1..Len(log) : log[i].active
    /\ \A i \in 1..Len(log) :
          log[i].what \in {"tag:status", "metrics", "best_trial.yaml", "summary.yaml"}
             => log[i].fit_done
    /\ FitDone => trials.pending = 0 /\ trials.running = 0
    /\ (trials # NoTrials \/ pc = "fitting") =>
          /\ run # "none"
          /\ Len(log) >= 1
          /\ log[1].what = "run_inputs.yaml"
    /\ pc = "fitting" => run = "active"

C8_Witness ==
    /\ pc = "done"
    /\ run = "FINISHED"
    /\ trials.ok = 2
    /\ trials.failed = 1
    /\ Len(log) = 8
    /\ log[8].what = "summary.yaml"

Conforms(c) ==
    /\ {"train", "test", "valid"} \subseteq built[c].splits
    /\ built[c].task = "MULTI_CLASS_CLASSIFICATION"
    /\ built[c].num_features = 129
    /\ built[c].num_classes = 6

TestFailed == test_outcome \notin {"running", "passed"}

\* C9: a configuration passes the contract check exactly when its dataset has
\* the splits train, test and valid, the task type MULTI_CLASS_CLASSIFICATION,
\* 129 features and 6 classes; test_all passes exactly when both "default" and
\* "numerical" pass, and fails when any field of either is off.
C9_ContractCheck ==
    /\ \A i \in 1..Len(DATASETS) : i <= test_index => Conforms(DATASETS[i].name)
    /\ TestFailed => ~Conforms(DATASETS[test_index + 1].name)
    /\ test_outcome = "passed" => \A c \in {"default", "numerical"} : Conforms(c)
    /\ test_outcome # "running" =>
          ((\E c \in {"default", "numerical"} : ~Conforms(c)) <=> TestFailed)

C9_Witness ==
    /\ test_index = 1
    /\ test_outcome = "num_classes"
    /\ built["numerical"].num_classes = 7
    /\ built["numerical"].num_features = 129
    /\ Conforms("default")

\* C10: the counts in best_trial.yaml are non-negative, add up to the number
\* of trials of the grid, and agree with the status tag: the tag is COMPLETED
\* exactly when num_failed_trials is 0, and FAILED only when
\* num_successful_trials is 0.
C10_CountsConsistent ==
    best_trial # None =>
        LET b == The(best_trial) IN
        /\ b.num_failed_trials >= 0
        /\ b.num_successful_trials >= 0
        /\ b.num_failed_trials + b.num_successful_trials = TotalTrials
        /\ TotalTrials = num_trials
        /\ b.num_failed_trials = FailedTrials
        /\ Len(StatusWrites) = 1
        /\ (StatusWrites[1].value = "COMPLETED" <=> b.num_failed_trials = 0)
        /\ (StatusWrites[1].value = "FAILED" => b.num_successful_trials = 0)

C10_Witness ==
    /\ best_trial # None
    /\ The(best_trial).num_failed_trials = 2
    /\ The(best_trial).num_successful_trials = 0
    /\ StatusWrites[1].value = "FAILED"

====
